---- MODULE Spec2Model ----
(***************************************************************************)
(* Model of the brute-force mesh collision core of sample2/main.cpp:       *)
(* checkOverlapOnAxis, TriTriIntersect, PrimitiveBroadPhase and the        *)
(* OpenMP-parallel AtayBayazitCollide.                                     *)
(*                                                                         *)
(* Numbers.  Every coordinate is an integer multiple of the grid step      *)
(* h = 2^-7 (exactly representable in binary64, so the sums, differences   *)
(* and products of the code are exact on these values).  A position is     *)
(* <<x, y, z>> in units of h; an axis (a cross product of two edges) is    *)
(* in units of h^2 and its squared norm in units of h^4 = 2^-28.           *)
(***************************************************************************)
EXTENDS Integers, Sequences, FiniteSets

VARIABLES m1, tf1, m2, tf2,   \* the caller's two (mesh, transform) pairs
          call,               \* 1: collide(m1,tf1,m2,tf2); 2: collide(m2,tf2,m1,tf1)
          first,              \* what call 1 returned (meaningful when call = 2)
          pc,                 \* "start" | "narrow" | "done" | "fault" | "off"
          broad,              \* what PrimitiveBroadPhase returned (pc # "start")
          collision,          \* the shared flag of the parallel loop
          pending,            \* iterations <<i, j>> no thread has begun yet
          th,                 \* per thread: idle, or holding a loaded triangle pair
          wrote,              \* per thread: it has itself stored true to the flag
          result,             \* the value returned (pc = "done")
          triRead,            \* history: some tri_indices entry was read in this call
          evaluated,          \* history: TriTriIntersect was evaluated in this call
          staleRead,          \* history: a flag read missed another thread's store
          lateWork,           \* history: an iteration begun after the store did work
          probe               \* a direct call of one of the two pure kernels

vars == <<m1, tf1, m2, tf2, call, first, pc, broad, collision, pending, th,
          wrote, result, triRead, evaluated, staleRead, lateWork, probe>>

(***************************************************************************)
(* Bounds of the model.                                                    *)
(***************************************************************************)
NumThreads == 2     \* worker threads of the parallel region
CoordMax == 2       \* grid coordinates of the probed triangles: 0..CoordMax
AxisMax == 2        \* components of the probed axes: -AxisMax..AxisMax

(***************************************************************************)
(* Vector3d and Transform3d.                                               *)
(***************************************************************************)
Min(a, b) == IF b < a THEN b ELSE a
Max(a, b) == IF a < b THEN b ELSE a

Dot(a, b) == a[1] * b[1] + a[2] * b[2] + a[3] * b[3]
Cross(a, b) == << a[2] * b[3] - a[3] * b[2],
                  a[3] * b[1] - a[1] * b[3],
                  a[1] * b[2] - a[2] * b[1] >>
Sub(a, b) == << a[1] - b[1], a[2] - b[2], a[3] - b[3] >>
Add(a, b) == << a[1] + b[1], a[2] + b[2], a[3] + b[3] >>
SquaredNorm(a) == Dot(a, a)

\* tf * v for an isometry: linear part times v, plus the translation.
Apply(tf, v) == Add(<< Dot(tf.R[1], v), Dot(tf.R[2], v), Dot(tf.R[3], v) >>, tf.t)

\* 1e-8 as the fraction 1 / EpsDen; h^4 as the fraction 1 / GridDen4.
EpsDen == 100000000
GridDen4 == 268435456

\* axis.squaredNorm() < 1e-8, for a squared norm of n * h^4:
\* n / GridDen4 < 1 / EpsDen  <=>  n * EpsDen < GridDen4  <=>  n <= (GridDen4 - 1) \div EpsDen
\* (the last form keeps the product out of the 32-bit range of the checker).
BelowEps(n) == n <= (GridDen4 - 1) \div EpsDen

(***************************************************************************)
(* PART 1: the separating-axis kernel.                                     *)
(***************************************************************************)
\* the running min / max of the three projections, as the two loops compute them
ProjMin(axis, T) == Min(Min(Dot(axis, T[1]), Dot(axis, T[2])), Dot(axis, T[3]))
ProjMax(axis, T) == Max(Max(Dot(axis, T[1]), Dot(axis, T[2])), Dot(axis, T[3]))

\* the gap test with <= in place of <: touching intervals count as apart
checkOverlapOnAxisStrict(axis, U, V) ==
    IF BelowEps(SquaredNorm(axis)) THEN TRUE
    ELSE IF ProjMax(axis, U) <= ProjMin(axis, V) \/ ProjMax(axis, V) <= ProjMin(axis, U)
         THEN FALSE ELSE TRUE

checkOverlapOnAxis(axis, U, V) ==
    IF BelowEps(SquaredNorm(axis)) THEN TRUE
    ELSE LET minU == ProjMin(axis, U)
             maxU == ProjMax(axis, U)
             minV == ProjMin(axis, V)
             maxV == ProjMax(axis, V)
         IN  IF maxU < minV \/ maxV < minU THEN FALSE ELSE TRUE

TriTriIntersect(U0, U1, U2, V0, V1, V2) ==
    LET U == << U0, U1, U2 >>
        V == << V0, V1, V2 >>
        edgeU == << Sub(U1, U0), Sub(U2, U1), Sub(U0, U2) >>
        edgeV == << Sub(V1, V0), Sub(V2, V1), Sub(V0, V2) >>
        normalU == Cross(edgeU[1], edgeU[2])
        normalV == Cross(edgeV[1], edgeV[2])
    IN  IF ~checkOverlapOnAxis(normalU, U, V) THEN FALSE
        ELSE IF ~checkOverlapOnAxis(normalV, U, V) THEN FALSE
        ELSE \A i \in 1..3 : \A j \in 1..3 :
                 checkOverlapOnAxis(Cross(edgeU[i], edgeV[j]), U, V)

(***************************************************************************)
(* PART 2: BVHModel (vertices, tri_indices), broad phase, narrow phase.    *)
(***************************************************************************)
num_vertices(m) == Len(m.vertices)
num_tris(m) == Len(m.tri_indices)

RECURSIVE AabbLoop(_, _, _, _, _)
AabbLoop(m, tf, i, lo, hi) ==
    IF i >= num_vertices(m) THEN [min |-> lo, max |-> hi]
    ELSE LET v == Apply(tf, m.vertices[i + 1])
         IN  AabbLoop(m, tf, i + 1,
                      << Min(lo[1], v[1]), Min(lo[2], v[2]), Min(lo[3], v[3]) >>,
                      << Max(hi[1], v[1]), Max(hi[2], v[2]), Max(hi[3], v[3]) >>)

\* min = max = tf * vertices[0], then the loop from i = 1
Aabb(m, tf) == AabbLoop(m, tf, 1, Apply(tf, m.vertices[1]), Apply(tf, m.vertices[1]))

\* the box test with only `max1 < min2' on each axis
PrimitiveBroadPhaseOneSided(a, ta, b, tb) ==
    IF num_vertices(a) = 0 \/ num_vertices(b) = 0 THEN FALSE
    ELSE LET max1 == Aabb(a, ta).max
             min2 == Aabb(b, tb).min
         IN  ~ (max1[1] < min2[1] \/ max1[2] < min2[2] \/ max1[3] < min2[3])

PrimitiveBroadPhase(a, ta, b, tb) ==
    IF num_vertices(a) = 0 \/ num_vertices(b) = 0 THEN FALSE
    ELSE LET min1 == Aabb(a, ta).min
             max1 == Aabb(a, ta).max
             min2 == Aabb(b, tb).min
             max2 == Aabb(b, tb).max
         IN  IF max1[1] < min2[1] \/ max2[1] < min1[1] THEN FALSE
             ELSE IF max1[2] < min2[2] \/ max2[2] < min1[2] THEN FALSE
             ELSE IF max1[3] < min2[3] \/ max2[3] < min1[3] THEN FALSE
             ELSE TRUE

\* the arguments of the call in progress
ArgA == IF call = 1 THEN m1 ELSE m2
ArgTa == IF call = 1 THEN tf1 ELSE tf2
ArgB == IF call = 1 THEN m2 ELSE m1
ArgTb == IF call = 1 THEN tf2 ELSE tf1

\* the gate without its early return
AfterBroadPhaseFallThrough(ok) == "narrow"

\* `if (!PrimitiveBroadPhase(...)) return false;'
AfterBroadPhase(ok) == IF ok THEN "narrow" ELSE "done"

\* the flag starting out set
InitialFlagSet == TRUE

\* `bool collision = false;'
InitialFlag == FALSE

\* the collapsed iteration space of the two for loops
Iterations(a, b) == (0..(num_tris(a) - 1)) \X (0..(num_tris(b) - 1))

\* What a read past the end of the vertex buffer can give: some value that
\* happens to lie there, or a fault of the process (Fault, the empty tuple).
Fault == << >>
OutOfBounds == { << 0, 0, 0 >>, << 1, 1, 0 >>, Fault }

\* m->vertices[idx]
ReadVertex(m, idx) ==
    IF idx \in 0..(num_vertices(m) - 1) THEN { m.vertices[idx + 1] } ELSE OutOfBounds

\* tf * m->vertices[idx]
WorldVertex(m, tf, idx) ==
    { IF v = Fault THEN Fault ELSE Apply(tf, v) : v \in ReadVertex(m, idx) }

\* Triangle tri = m->tri_indices[k]; the three transformed vertices
LoadTri(m, tf, k) ==
    LET tri == m.tri_indices[k + 1]
    IN  WorldVertex(m, tf, tri[1]) \X WorldVertex(m, tf, tri[2]) \X WorldVertex(m, tf, tri[3])

Faulted(T) == \E k \in 1..3 : T[k] = Fault

\* `if (collision) continue;' is a plain read of a flag other threads store to
\* without synchronisation: it yields the current value or the value from
\* before their store; a thread always sees what it stored itself.
FlagReads(t) == IF wrote[t] THEN { TRUE } ELSE { collision, InitialFlag }

\* the store made unconditional: `collision = TriTriIntersect(...);'
StoreFlagOverwrite(cur, hit) == hit

\* `if (TriTriIntersect(...)) collision = true;'
StoreFlag(cur, hit) == IF hit THEN TRUE ELSE cur

Threads == 1..NumThreads
ZeroVec == << 0, 0, 0 >>
ZeroTri == << ZeroVec, ZeroVec, ZeroVec >>
Idle == [st |-> "idle", U |-> ZeroTri, V |-> ZeroTri]
NoProbe == [kind |-> "none", axis |-> ZeroVec, U |-> ZeroTri, V |-> ZeroTri,
            done |-> FALSE, out |-> FALSE]

(***************************************************************************)
(* AtayBayazitCollide, one action per step.                                *)
(***************************************************************************)
\* lines 118-124: the broad-phase gate, then the flag and the parallel region
BroadPhase ==
    /\ pc = "start"
    /\ LET ok == PrimitiveBroadPhase(ArgA, ArgTa, ArgB, ArgTb)
       IN  /\ broad' = ok
           /\ pc' = AfterBroadPhase(ok)
           /\ result' = FALSE
           /\ collision' = InitialFlag
           /\ pending' = IF AfterBroadPhase(ok) = "narrow" THEN Iterations(ArgA, ArgB) ELSE {}
    /\ UNCHANGED <<m1, tf1, m2, tf2, call, first, th, wrote, triRead, evaluated,
                   staleRead, lateWork, probe>>

\* lines 129-146: a thread begins an iteration: the flag check, then the loads
Begin(t) ==
    /\ pc = "narrow"
    /\ th[t].st = "idle"
    /\ \E it \in pending : \E seen \in FlagReads(t) :
         /\ pending' = pending \ {it}
         /\ staleRead' = (staleRead \/ (seen # collision))
         /\ IF seen
            THEN UNCHANGED <<th, triRead, lateWork, pc>>
            ELSE \E U \in LoadTri(ArgA, ArgTa, it[1]) : \E V \in LoadTri(ArgB, ArgTb, it[2]) :
                   /\ triRead' = TRUE
                   /\ lateWork' = (lateWork \/ collision)
                   /\ IF Faulted(U) \/ Faulted(V)
                      THEN pc' = "fault" /\ UNCHANGED th
                      ELSE pc' = pc /\ th' = [th EXCEPT ![t] = [st |-> "loaded", U |-> U, V |-> V]]
    /\ UNCHANGED <<m1, tf1, m2, tf2, call, first, broad, collision, wrote, result,
                   evaluated, probe>>

\* lines 149-151: the kernel on the loaded pair, and the store on a hit
Finish(t) ==
    /\ pc = "narrow"
    /\ th[t].st = "loaded"
    /\ LET U == th[t].U
           V == th[t].V
           hit == TriTriIntersect(U[1], U[2], U[3], V[1], V[2], V[3])
       IN  /\ collision' = StoreFlag(collision, hit)
           /\ wrote' = [wrote EXCEPT ![t] = wrote[t] \/ hit]
    /\ evaluated' = TRUE
    /\ th' = [th EXCEPT ![t] = Idle]
    /\ UNCHANGED <<m1, tf1, m2, tf2, call, first, pc, broad, pending, result,
                   triRead, staleRead, lateWork, probe>>

\* lines 153-154: the implicit barrier of the parallel for, `return collision;'
Join ==
    /\ pc = "narrow"
    /\ pending = {}
    /\ \A t \in Threads : th[t].st = "idle"
    /\ result' = collision
    /\ pc' = "done"
    /\ UNCHANGED <<m1, tf1, m2, tf2, call, first, broad, collision, pending, th,
                   wrote, triRead, evaluated, staleRead, lateWork, probe>>

\* the caller asks again with the two (mesh, transform) arguments exchanged
CallSwapped ==
    /\ pc = "done"
    /\ call = 1
    /\ call' = 2
    /\ first' = result
    /\ pc' = "start"
    /\ broad' = FALSE
    /\ collision' = FALSE
    /\ result' = FALSE
    /\ wrote' = [t \in Threads |-> FALSE]
    /\ triRead' = FALSE
    /\ evaluated' = FALSE
    /\ staleRead' = FALSE
    /\ lateWork' = FALSE
    /\ UNCHANGED <<m1, tf1, m2, tf2, pending, th, probe>>

(***************************************************************************)
(* The inputs.  createSphereMesh builds meshes whose triangles index       *)
(* their own vertex buffer; the pool below keeps that and adds the         *)
(* degenerate shapes of BVHModel: no vertices, vertices without triangles. *)
(***************************************************************************)
IdentityR == << << 1, 0, 0 >>, << 0, 1, 0 >>, << 0, 0, 1 >> >>
\* a quarter turn about the x axis: (x, y, z) -> (x, -z, y)
QuarterX == << << 1, 0, 0 >>, << 0, 0, -1 >>, << 0, 1, 0 >> >>

Transforms ==
    { [R |-> IdentityR, t |-> << 0, 0, 0 >>],     \* Transform3d::Identity()
      [R |-> IdentityR, t |-> << 4, 0, 0 >>],     \* apart along x
      [R |-> IdentityR, t |-> << 0, 0, 1 >>],     \* a parallel plane above
      [R |-> QuarterX,  t |-> << 0, 1, -1 >>],    \* upright, cutting through
      [R |-> QuarterX,  t |-> << 2, 2, -1 >>] }   \* upright, boxes touch, surfaces apart

BigVerts == << << 0, 0, 0 >>, << 2, 0, 0 >>, << 0, 2, 0 >> >>
UnitVerts == << << 0, 0, 0 >>, << 1, 0, 0 >>, << 0, 1, 0 >> >>
QuadVerts == << << 0, 0, 0 >>, << 2, 0, 0 >>, << 0, 2, 0 >>, << 2, 2, 0 >> >>

Meshes ==
    { [vertices |-> << >>,     tri_indices |-> << >>],
      [vertices |-> BigVerts,  tri_indices |-> << >>],
      [vertices |-> BigVerts,  tri_indices |-> << << 0, 1, 2 >> >>],
      [vertices |-> UnitVerts, tri_indices |-> << << 0, 1, 2 >> >>],
      [vertices |-> QuadVerts, tri_indices |-> << << 0, 1, 2 >>, << 1, 3, 2 >> >>] }

\* meshes whose index buffer names a vertex the vertex buffer does not hold
BadMeshes ==
    { [vertices |-> BigVerts,  tri_indices |-> << << 0, 1, 3 >> >>],
      [vertices |-> QuadVerts, tri_indices |-> << << 0, 1, 2 >>, << 1, 4, 2 >> >>] }

IndicesInBounds(m) ==
    \A k \in 1..num_tris(m) : \A c \in 1..3 :
        m.tri_indices[k][c] \in 0..(num_vertices(m) - 1)

InitCall ==
    /\ call = 1
    /\ first = FALSE
    /\ pc = "start"
    /\ broad = FALSE
    /\ collision = FALSE
    /\ pending = {}
    /\ th = [t \in Threads |-> Idle]
    /\ wrote = [t \in Threads |-> FALSE]
    /\ result = FALSE
    /\ triRead = FALSE
    /\ evaluated = FALSE
    /\ staleRead = FALSE
    /\ lateWork = FALSE
    /\ probe = NoProbe

\* callers that keep the interface's precondition (index-consistent meshes)
Init ==
    /\ m1 \in Meshes
    /\ m2 \in Meshes
    /\ tf1 \in Transforms
    /\ tf2 \in Transforms
    /\ InitCall

Next ==
    \/ BroadPhase
    \/ \E t \in Threads : Begin(t)
    \/ \E t \in Threads : Finish(t)
    \/ Join
    \/ CallSwapped

Spec == Init /\ [][Next]_vars

\* callers that hand over a mesh with an out-of-range vertex index
InitUnchecked ==
    /\ m1 \in Meshes \cup BadMeshes
    /\ m2 \in Meshes \cup BadMeshes
    /\ ~IndicesInBounds(m1) \/ ~IndicesInBounds(m2)
    /\ tf1 \in Transforms
    /\ tf2 \in Transforms
    /\ InitCall

SpecUnchecked == InitUnchecked /\ [][Next]_vars

(***************************************************************************)
(* The two kernels called directly, on probed axes and triangles.          *)
(***************************************************************************)
Translate(T, d) == << Add(T[1], d), Add(T[2], d), Add(T[3], d) >>

RefTris ==
    { << << 0, 0, 0 >>, << 2, 0, 0 >>, << 0, 2, 0 >> >>,    \* normal of squared norm 16
      << << 0, 0, 0 >>, << 1, 0, 0 >>, << 0, 1, 0 >> >>,    \* normal of squared norm 1
      << << 0, 0, 0 >>, << 1, 0, 0 >>, << 2, 0, 0 >> >> }   \* collinear: zero area

Offsets == { << 0, 0, 0 >>, << 2, 0, 0 >>, << 3, 0, 0 >>, << 0, 0, 2 >>, << 1, 1, 1 >> }

GridPoints == (0..CoordMax) \X (0..CoordMax) \X {0, CoordMax}
Axes == (-AxisMax..AxisMax) \X (-AxisMax..AxisMax) \X (-AxisMax..AxisMax)

AxisProbes ==
    { [kind |-> "axis", axis |-> ax, U |-> U, V |-> Translate(T, d),
       done |-> FALSE, out |-> FALSE] :
          ax \in Axes, U \in RefTris, T \in RefTris, d \in Offsets }

TriProbes ==
    { [kind |-> "tri", axis |-> ZeroVec, U |-> U, V |-> << p, q, r >>,
       done |-> FALSE, out |-> FALSE] :
          U \in RefTris, p \in GridPoints, q \in GridPoints, r \in GridPoints }
    \cup
    { [kind |-> "tri", axis |-> ZeroVec, U |-> U, V |-> Translate(T, d),
       done |-> FALSE, out |-> FALSE] :
          U \in RefTris, T \in RefTris, d \in Offsets }

InitKernel ==
    /\ m1 = [vertices |-> << >>, tri_indices |-> << >>]
    /\ m2 = [vertices |-> << >>, tri_indices |-> << >>]
    /\ tf1 = [R |-> IdentityR, t |-> ZeroVec]
    /\ tf2 = [R |-> IdentityR, t |-> ZeroVec]
    /\ call = 1
    /\ first = FALSE
    /\ pc = "off"
    /\ broad = FALSE
    /\ collision = FALSE
    /\ pending = {}
    /\ th = [t \in Threads |-> Idle]
    /\ wrote = [t \in Threads |-> FALSE]
    /\ result = FALSE
    /\ triRead = FALSE
    /\ evaluated = FALSE
    /\ staleRead = FALSE
    /\ lateWork = FALSE
    /\ probe \in AxisProbes \cup TriProbes

CallCheckOverlapOnAxis ==
    /\ probe.kind = "axis"
    /\ ~probe.done
    /\ probe' = [probe EXCEPT !.done = TRUE,
                              !.out = checkOverlapOnAxis(probe.axis, probe.U, probe.V)]
    /\ UNCHANGED <<m1, tf1, m2, tf2, call, first, pc, broad, collision, pending, th,
                   wrote, result, triRead, evaluated, staleRead, lateWork>>

CallTriTriIntersect ==
    /\ probe.kind = "tri"
    /\ ~probe.done
    /\ probe' = [probe EXCEPT !.done = TRUE,
                              !.out = TriTriIntersect(probe.U[1], probe.U[2], probe.U[3],
                                                      probe.V[1], probe.V[2], probe.V[3])]
    /\ UNCHANGED <<m1, tf1, m2, tf2, call, first, pc, broad, collision, pending, th,
                   wrote, result, triRead, evaluated, staleRead, lateWork>>

NextKernel == CallCheckOverlapOnAxis \/ CallTriTriIntersect

SpecKernel == InitKernel /\ [][NextKernel]_vars

(***************************************************************************)
(* Vocabulary of the properties.                                           *)
(***************************************************************************)
SetMin(S) == CHOOSE x \in S : \A y \in S : x <= y
SetMax(S) == CHOOSE x \in S : \A y \in S : y <= x

\* the projections of a triangle's three vertices onto an axis
Shadow(axis, T) == { Dot(axis, T[k]) : k \in 1..3 }

\* NOT(maxU < minV OR maxV < minU) on the projected intervals
IntervalsMeet(axis, U, V) ==
    ~ (\/ SetMax(Shadow(axis, U)) < SetMin(Shadow(axis, V))
       \/ SetMax(Shadow(axis, V)) < SetMin(Shadow(axis, U)))

\* the plane with normal n has every vertex of one triangle strictly on one
\* side and every vertex of the other strictly on the other side
StrictlySeparates(n, U, V) ==
    \/ \A u \in Shadow(n, U) : \A v \in Shadow(n, V) : u < v
    \/ \A u \in Shadow(n, U) : \A v \in Shadow(n, V) : v < u

PlaneNormals == ((-1..1) \X (-1..1) \X (-1..1)) \ { ZeroVec }

NonCollinear(T) == Cross(Sub(T[2], T[1]), Sub(T[3], T[1])) # ZeroVec

Coplanar(U, V) ==
    LET n == Cross(Sub(U[2], U[1]), Sub(U[3], U[1]))
    IN  \A k \in 1..3 : Dot(n, Sub(V[k], U[1])) = 0

\* triangle k of mesh m in world space (index-consistent meshes)
WorldTri(m, tf, k) ==
    LET tri == m.tri_indices[k + 1]
    IN  << Apply(tf, m.vertices[tri[1] + 1]),
           Apply(tf, m.vertices[tri[2] + 1]),
           Apply(tf, m.vertices[tri[3] + 1]) >>

\* some pair (i, j) satisfies TriTriIntersect on the transformed triangles
AnyPairIntersects(a, ta, b, tb) ==
    \E i \in 0..(num_tris(a) - 1) : \E j \in 0..(num_tris(b) - 1) :
        LET U == WorldTri(a, ta, i)
            V == WorldTri(b, tb, j)
        IN  TriTriIntersect(U[1], U[2], U[3], V[1], V[2], V[3])

IsEmpty(m) == num_vertices(m) = 0 \/ num_tris(m) = 0

Returned == pc = "done"
PastBroadPhase == pc \in {"narrow", "done", "fault"}

(***************************************************************************)
(* The properties.                                                         *)
(***************************************************************************)

\* C1: whatever the number of threads and the interleaving, a call whose
\* broad phase returned true returns true exactly when some triangle pair
\* (i, j) satisfies TriTriIntersect: the race on the flag loses no hit, and
\* the result is a function of the inputs.
C1_ResultIsExistsPair ==
    (Returned /\ broad) => (result = AnyPairIntersects(ArgA, ArgTa, ArgB, ArgTb))

\* a call that returned true although a thread read the flag stale and
\* evaluated a pair after another thread's store
C1_Witness == Returned /\ broad /\ result /\ staleRead /\ lateWork

\* C2: two non-collinear triangles that a plane strictly separates make
\* TriTriIntersect return false, coplanar disjoint triangles included.
C2_SeparatedTrianglesRejected ==
    ( /\ probe.kind = "tri"
      /\ probe.done
      /\ NonCollinear(probe.U)
      /\ NonCollinear(probe.V)
      /\ \E n \in PlaneNormals : StrictlySeparates(n, probe.U, probe.V) )
    => (probe.out = FALSE)

\* C3: a call given a triangle whose vertex index is out of range signals an
\* invalid-argument error at entry: it never gets to the broad phase, to a
\* vertex read or to a return value.
C3_InvalidIndexRejected ==
    (~IndicesInBounds(ArgA) \/ ~IndicesInBounds(ArgB))
    => (pc \in {"start", "invalid_argument"})

\* C4: a call with a mesh that has no vertices or no triangles returns false.
C4_EmptyMeshReturnsFalse ==
    (Returned /\ (IsEmpty(ArgA) \/ IsEmpty(ArgB))) => (result = FALSE)

\* a mesh with vertices and no triangles passed the broad phase against a
\* mesh that has triangles, and the call returned
C4_Witness ==
    /\ Returned
    /\ broad
    /\ num_vertices(ArgA) > 0
    /\ num_tris(ArgA) = 0
    /\ num_tris(ArgB) > 0

\* C5: the call with the two (mesh, transform) arguments exchanged returns
\* what the first call returned.
C5_SwapSameResult == (call = 2 /\ Returned) => (result = first)

\* both calls ran the narrow phase on different meshes under different
\* transforms and returned true
C5_Witness ==
    /\ call = 2
    /\ Returned
    /\ result
    /\ evaluated
    /\ m1 # m2
    /\ tf1 # tf2

\* C6: checkOverlapOnAxis returns true exactly when the axis's squared norm is
\* below the epsilon or the projected intervals are not apart (touching
\* endpoints count as overlap), and false otherwise.
C6_AxisOverlapContract ==
    (probe.kind = "axis" /\ probe.done)
    => (probe.out = (\/ BelowEps(SquaredNorm(probe.axis))
                     \/ IntervalsMeet(probe.axis, probe.U, probe.V)))

\* a nonzero axis below the epsilon passed two triangles whose projections
\* on it are apart
C6_Witness ==
    /\ probe.kind = "axis"
    /\ probe.done
    /\ probe.axis # ZeroVec
    /\ BelowEps(SquaredNorm(probe.axis))
    /\ ~IntervalsMeet(probe.axis, probe.U, probe.V)
    /\ probe.out

\* C7: the narrow phase runs only after the broad phase returned true: a call
\* whose broad phase returned false has returned false, with no triangle
\* index read and no TriTriIntersect evaluated.
C7_NarrowOnlyAfterBroad ==
    /\ (PastBroadPhase /\ ~broad)
          => (Returned /\ result = FALSE /\ ~triRead /\ ~evaluated /\ pending = {})
    /\ (triRead \/ evaluated) => (PastBroadPhase /\ broad)

\* the broad phase turned down two meshes that both have triangles
C7_Witness ==
    /\ Returned
    /\ ~broad
    /\ num_tris(ArgA) > 0
    /\ num_tris(ArgB) > 0
    /\ ~triRead
    /\ ~evaluated

\* C8: when PrimitiveBroadPhase returns false, no triangle pair of the two
\* transformed meshes satisfies TriTriIntersect.
C8_BroadPhaseConservative ==
    (PastBroadPhase /\ ~broad) => ~AnyPairIntersects(ArgA, ArgTa, ArgB, ArgTb)

\* C9: PrimitiveBroadPhase returns false whenever a mesh has no vertices or
\* no triangles.
C9_EmptyMeshNoOverlap ==
    (PastBroadPhase /\ (IsEmpty(ArgA) \/ IsEmpty(ArgB))) => (broad = FALSE)

\* C10: an iteration that begins once the flag is true does no work: it reads
\* no triangle data and evaluates no TriTriIntersect.
C10_LateIterationsSkip == ~lateWork

====
